---- MODULE Spec2Model ----
(***************************************************************************)
(* A model of simmer's activity core (inst/include/simmer/activity.h):     *)
(* the Activity node with its link accessors, copy construction and the    *)
(* remove hook, the three parameter getters, the trajectory bridge         *)
(* (head, tail, get_n_activities, clone), the printing helpers and get_op. *)
(*                                                                         *)
(* Nodes live in a heap: a sequence of Activity records, a node's address  *)
(* being its index and NULL the null pointer.                              *)
(***************************************************************************)
EXTENDS Integers, Sequences, FiniteSets, TLC

VARIABLES
  heap,     \* the Activity objects, by address
  lastOp,   \* the operation that ran last: [op, a, b]
  steps,    \* mutations made so far (link specification)
  ghost,    \* the value last passed to each node's set_next and set_prev
  traj,     \* the trajectory that is built
  twin,     \* its clone
  cloned,   \* whether the clone was made
  snap,     \* the tags of the trajectory's nodes when it was cloned
  drive,    \* the scheduler's walk of one arrival along the trajectory
  removes,  \* the calls of remove made so far
  rv,       \* the parameter resolutions made: the last one and their number
  cb,       \* the native callback: what it answers next and its invocations
  ov,       \* one use of get_op: the tag, the arguments, the combinator, the result
  pv        \* one printing of the trajectory: its arguments and the output so far

vars == <<heap, lastOp, steps, ghost, traj, twin, cloned, snap, drive, removes,
          rv, cb, ov, pv>>

chainVars == <<traj, twin, cloned, snap>>
linkVars == <<steps, ghost>>
driveVars == <<drive, removes>>
getVars == <<rv, cb>>

\* What the link specification leaves alone.
LinksRest == <<chainVars, driveVars, getVars, ov, pv>>
\* What the chain specification leaves alone.
ChainRest == <<linkVars, driveVars, getVars, ov, pv>>

\* ------------------------------------------------------------------ bounds

\* Nodes a trajectory holds at most.
MaxChain == 3
\* Calls of remove in one behaviour.
MaxRemoves == 2
\* Parameter resolutions in one behaviour.
MaxResolves == 3
\* The largest argument given to a combinator.
MaxArg == 3
\* Labelled arguments a node prints after its header.
PrintArgs == 2
\* Nodes constructed up front in the link specification.
LinkNodes == 3
\* Field and link mutations one behaviour of the link specification makes.
MaxOps == 2

\* ---------------------------------------------------------------- the node

NULL == 0

Names == {"A", "B"}
Tags == {"", "x"}
Counts == {1, 2}
Priorities == {0, 1}

Allocated(h) == 1..Len(h)
Pointers(h) == Allocated(h) \cup {NULL}

\* Activity(const std::string& name, int priority = 0)
Activity(name, priority) ==
  [name |-> name, tag |-> "", count |-> 1, priority |-> priority,
   next |-> NULL, prev |-> NULL]

\* A copy constructor that keeps the source's links (the implicit one).
ActivityCopy_keeplinks(o) ==
  [name |-> o.name, tag |-> o.tag, count |-> o.count, priority |-> o.priority,
   next |-> o.next, prev |-> o.prev]

\* A copy constructor that forgets the tag.
ActivityCopy_notag(o) ==
  [name |-> o.name, tag |-> "", count |-> o.count, priority |-> o.priority,
   next |-> NULL, prev |-> NULL]

\* Activity(const Activity& o)
ActivityCopy(o) ==
  [name |-> o.name, tag |-> o.tag, count |-> o.count, priority |-> o.priority,
   next |-> NULL, prev |-> NULL]

\* new T(...): the heap with one more node, whose address is Len(h) + 1.
New(h, node) == Append(h, node)

\* BASE_CLONEABLE / CLONEABLE: clone() is new Type(*this).
CloneNode(h, a) == New(h, ActivityCopy(h[a]))

\* A get_next that reads the other link.
get_next_prev(h, a) == h[a].prev

get_next(h, a) == h[a].next

get_prev(h, a) == h[a].prev

\* A set_next that links both directions.
set_next_both(h, a, b) ==
  IF b = NULL THEN [h EXCEPT ![a].next = b]
  ELSE [h EXCEPT ![a].next = b, ![b].prev = a]

set_next(h, a, b) == [h EXCEPT ![a].next = b]

\* A set_prev that stores into the wrong field.
set_prev_lost(h, a, b) == [h EXCEPT ![a].next = b]

set_prev(h, a, b) == [h EXCEPT ![a].prev = b]

\* ------------------------------------------- the link specification

EmptyTrajectory == [ptrs |-> <<>>]

Idle == [pc |-> "idle", arrival |-> NULL, cur |-> NULL, total |-> 0, visited |-> <<>>]

NoRemoves == [n |-> 0, twice |-> FALSE]

NoResolution ==
  [n |-> 0, kind |-> "none", ctx |-> NULL, var |-> 0, result |-> 0, prev |-> 0]

NoCallback == [out |-> <<>>, calls |-> 0, arg |-> NULL, ret |-> 0]

\* An empty Fn: a std::function constructed from NULL.
EmptyFn == [empty |-> TRUE, call |-> <<>>]

NoOperator == [pc |-> "none", mod |-> "", x |-> 0, y |-> 0, fn |-> EmptyFn, out |-> 0]

NoPrinting ==
  [pc |-> "idle", at |-> 0, out |-> <<>>, indent |-> 0, verbose |-> FALSE,
   brief |-> FALSE, endl |-> FALSE, nargs |-> 0]

Op(op, a, b) == [op |-> op, a |-> a, b |-> b]

NoGhost == [next |-> <<>>, prev |-> <<>>]

\* The fixture: LinkNodes nodes, constructed with alternating arguments.
Fixture(i) == IF i % 2 = 1 THEN Activity("A", 0) ELSE Activity("B", 1)

InitLinks ==
  /\ heap = [i \in 1..LinkNodes |-> Fixture(i)]
  /\ lastOp = Op("init", NULL, NULL)
  /\ steps = 0
  /\ ghost = [next |-> [i \in 1..LinkNodes |-> NULL],
              prev |-> [i \in 1..LinkNodes |-> NULL]]
  /\ traj = EmptyTrajectory
  /\ twin = EmptyTrajectory
  /\ cloned = FALSE
  /\ snap = <<>>
  /\ drive = Idle
  /\ removes = NoRemoves
  /\ rv = NoResolution
  /\ cb = NoCallback
  /\ ov = NoOperator
  /\ pv = NoPrinting

SetNext(a, b) ==
  /\ steps < MaxOps
  /\ UNCHANGED LinksRest
  /\ heap' = set_next(heap, a, b)
  /\ ghost' = [ghost EXCEPT !.next[a] = b]
  /\ lastOp' = Op("set_next", a, b)
  /\ steps' = steps + 1

SetPrev(a, b) ==
  /\ steps < MaxOps
  /\ UNCHANGED LinksRest
  /\ heap' = set_prev(heap, a, b)
  /\ ghost' = [ghost EXCEPT !.prev[a] = b]
  /\ lastOp' = Op("set_prev", a, b)
  /\ steps' = steps + 1

\* tag and count are public fields.
SetTag(a, t) ==
  /\ steps < MaxOps
  /\ heap' = [heap EXCEPT ![a].tag = t]
  /\ lastOp' = Op("set_tag", a, NULL)
  /\ steps' = steps + 1
  /\ UNCHANGED <<ghost, LinksRest>>

SetCount(a, c) ==
  /\ steps < MaxOps
  /\ heap' = [heap EXCEPT ![a].count = c]
  /\ lastOp' = Op("set_count", a, NULL)
  /\ steps' = steps + 1
  /\ UNCHANGED <<ghost, LinksRest>>

\* One node of the fixture is cloned, once.
CloneOne(a) ==
  /\ Len(heap) = LinkNodes
  /\ heap' = CloneNode(heap, a)
  /\ ghost' = [next |-> Append(ghost.next, NULL), prev |-> Append(ghost.prev, NULL)]
  /\ lastOp' = Op("clone", a, Len(heap) + 1)
  /\ UNCHANGED <<steps, LinksRest>>

NextLinks ==
  \/ \E a \in Allocated(heap), b \in Pointers(heap) : SetNext(a, b)
  \/ \E a \in Allocated(heap), b \in Pointers(heap) : SetPrev(a, b)
  \/ \E a \in Allocated(heap), t \in Tags : SetTag(a, t)
  \/ \E a \in Allocated(heap), c \in Counts : SetCount(a, c)
  \/ \E a \in Allocated(heap) : CloneOne(a)

SpecLinks == InitLinks /\ [][NextLinks]_vars

\* Every node but a keeps all its fields and links.
OthersKept(a) == \A m \in Allocated(heap) : m # a => heap'[m] = heap[m]

\* C10: set_next(a, b) stores b in a.next and changes nothing else, set_prev(a, b)
\* stores b in a.prev and changes nothing else, get_next and get_prev return the
\* value last passed to the node's setter (null when never set), and a set_next
\* alone leaves a.next = b with b.prev unchanged, so still different from a where
\* it was.
C10_SettersOneSided ==
  /\ [](\A n \in Allocated(heap) :
          /\ get_next(heap, n) = ghost.next[n]
          /\ get_prev(heap, n) = ghost.prev[n])
  /\ [][/\ lastOp'.op = "set_next" =>
            LET a == lastOp'.a
                b == lastOp'.b
            IN /\ heap'[a] = [heap[a] EXCEPT !.next = b]
               /\ OthersKept(a)
               /\ Len(heap') = Len(heap)
               /\ (b # NULL /\ heap[b].prev # a) =>
                    (get_next(heap', a) = b /\ get_prev(heap', b) # a)
        /\ lastOp'.op = "set_prev" =>
            LET a == lastOp'.a
                b == lastOp'.b
            IN /\ heap'[a] = [heap[a] EXCEPT !.prev = b]
               /\ OthersKept(a)
               /\ Len(heap') = Len(heap)]_vars

\* A set_next(a, b) on distinct nodes has just run and b.prev is not a.
C10_Witness ==
  /\ lastOp.op = "set_next"
  /\ lastOp.b # NULL
  /\ lastOp.b # lastOp.a
  /\ get_next(heap, lastOp.a) = lastOp.b
  /\ get_prev(heap, lastOp.b) # lastOp.a

\* C3: cloning a node gives a new node with the source's name, tag, count and
\* priority and with null next and prev, whatever links the source has; the
\* source and every other node are unchanged.
C3_CloneNodeCopiesFieldsResetsLinks ==
  [][lastOp'.op = "clone" =>
       LET s == lastOp'.a
           c == lastOp'.b
       IN /\ c \notin Allocated(heap)
          /\ c \in Allocated(heap')
          /\ heap'[c].name = heap[s].name
          /\ heap'[c].tag = heap[s].tag
          /\ heap'[c].count = heap[s].count
          /\ heap'[c].priority = heap[s].priority
          /\ get_next(heap', c) = NULL
          /\ get_prev(heap', c) = NULL
          /\ \A m \in Allocated(heap) : heap'[m] = heap[m]]_vars

\* A node with a tag, a changed count or links of its own has just been cloned.
C3_Witness ==
  /\ lastOp.op = "clone"
  /\ heap[lastOp.a].next # NULL
  /\ heap[lastOp.a].tag # ""
  /\ heap[lastOp.b].tag = heap[lastOp.a].tag
  /\ heap[lastOp.b].next = NULL

\* ------------------------------------------- the trajectory bridge

\* The host side of a trajectory: the addresses of its nodes in chain order.
\* Its methods answer R_NilValue (nil) for an empty trajectory.
R_head(trajectory) ==
  IF trajectory.ptrs = <<>> THEN [nil |-> TRUE, ptr |-> NULL]
  ELSE [nil |-> FALSE, ptr |-> trajectory.ptrs[1]]

R_tail(trajectory) ==
  IF trajectory.ptrs = <<>> THEN [nil |-> TRUE, ptr |-> NULL]
  ELSE [nil |-> FALSE, ptr |-> trajectory.ptrs[Len(trajectory.ptrs)]]

head(trajectory) ==
  LET method == R_head(trajectory)
  IN IF method.nil THEN NULL ELSE method.ptr

tail(trajectory) ==
  LET method == R_tail(trajectory)
  IN IF method.nil THEN NULL ELSE method.ptr

get_n_activities(trajectory) == Len(trajectory.ptrs)

\* Sequential append: the new node becomes the tail, the old tail and the new
\* node linked through set_next and set_prev.
AppendActivity(h, trajectory, node) ==
  LET h1 == New(h, node)
      b == Len(h1)
      a == tail(trajectory)
      h2 == IF a = NULL THEN h1 ELSE set_prev(set_next(h1, a, b), b, a)
  IN [heap |-> h2, traj |-> [ptrs |-> Append(trajectory.ptrs, b)]]

\* The host side's clone method: every node cloned in chain order, each clone
\* appended to the new trajectory.
RECURSIVE CloneFrom(_, _, _, _)
CloneFrom(h, trajectory, i, acc) ==
  IF i > Len(trajectory.ptrs) THEN [heap |-> h, traj |-> acc]
  ELSE LET h1 == CloneNode(h, trajectory.ptrs[i])
           c == Len(h1)
           a == tail(acc)
           h2 == IF a = NULL THEN h1 ELSE set_prev(set_next(h1, a, c), c, a)
       IN CloneFrom(h2, trajectory, i + 1, [ptrs |-> Append(acc.ptrs, c)])

R_clone(h, trajectory) == CloneFrom(h, trajectory, 1, EmptyTrajectory)

clone(h, trajectory) ==
  LET method == R_clone(h, trajectory)
  IN method

\* ------------------------------------------- the chain specification

InitChain ==
  /\ heap = <<>>
  /\ lastOp = Op("init", NULL, NULL)
  /\ steps = 0
  /\ ghost = NoGhost
  /\ traj = EmptyTrajectory
  /\ twin = EmptyTrajectory
  /\ cloned = FALSE
  /\ snap = <<>>
  /\ drive = Idle
  /\ removes = NoRemoves
  /\ rv = NoResolution
  /\ cb = NoCallback
  /\ ov = NoOperator
  /\ pv = NoPrinting

TagsOf(h, trajectory) ==
  [i \in 1..Len(trajectory.ptrs) |-> h[trajectory.ptrs[i]].tag]

AppendStep(name, priority) ==
  /\ ~cloned
  /\ get_n_activities(traj) < MaxChain
  /\ LET r == AppendActivity(heap, traj, Activity(name, priority))
     IN /\ heap' = r.heap
        /\ traj' = r.traj
  /\ lastOp' = Op("append", NULL, NULL)
  /\ UNCHANGED <<twin, cloned, snap, ChainRest>>

\* Before the clone is made the trajectory's nodes are tagged, after it the
\* clone's.
Tagged == IF cloned THEN twin ELSE traj

TagStep(i, t) ==
  /\ heap' = [heap EXCEPT ![Tagged.ptrs[i]].tag = t]
  /\ lastOp' = Op("set_tag", NULL, NULL)
  /\ UNCHANGED <<chainVars, ChainRest>>

CloneStep ==
  /\ ~cloned
  /\ LET r == clone(heap, traj)
     IN /\ heap' = r.heap
        /\ twin' = r.traj
  /\ cloned' = TRUE
  /\ snap' = TagsOf(heap, traj)
  /\ lastOp' = Op("clone", NULL, NULL)
  /\ UNCHANGED <<traj, ChainRest>>

NextChain ==
  \/ \E name \in Names, priority \in Priorities : AppendStep(name, priority)
  \/ \E i \in 1..Len(Tagged.ptrs), t \in Tags : TagStep(i, t)
  \/ CloneStep

SpecChain == InitChain /\ [][NextChain]_vars

\* The nodes of a trajectory are linked one to the next, in both directions.
Linked(h, trajectory) ==
  \A i \in 1..(Len(trajectory.ptrs) - 1) :
    /\ get_next(h, trajectory.ptrs[i]) = trajectory.ptrs[i + 1]
    /\ get_prev(h, trajectory.ptrs[i + 1]) = trajectory.ptrs[i]

\* C1: in a chain built by sequential append, whenever a.next is b, b.prev is a;
\* the head has no prev and the tail no next.
C1_ChainLinksSymmetric ==
  /\ Linked(heap, traj)
  /\ \A i \in 1..Len(traj.ptrs) :
       LET a == traj.ptrs[i]
           b == get_next(heap, a)
       IN b # NULL => get_prev(heap, b) = a
  /\ traj.ptrs # <<>> =>
       /\ get_prev(heap, head(traj)) = NULL
       /\ get_next(heap, tail(traj)) = NULL

\* Three nodes were appended: the middle one has both neighbours.
C1_Witness ==
  /\ Len(traj.ptrs) = 3
  /\ get_next(heap, traj.ptrs[2]) = traj.ptrs[3]
  /\ get_prev(heap, traj.ptrs[2]) = traj.ptrs[1]

\* C2: a trajectory and its clone have the same length; when the clone is made
\* its nodes match the trajectory's in name, tag and priority, position by
\* position, and are nodes of their own; however the clone's nodes are tagged
\* afterwards, name and priority still match and the trajectory's tags are those
\* it had when it was cloned.
C2_CloneMatchesAndIsIndependent ==
  cloned =>
    /\ get_n_activities(twin) = get_n_activities(traj)
    /\ \A i \in 1..Len(traj.ptrs), j \in 1..Len(twin.ptrs) :
         traj.ptrs[i] # twin.ptrs[j]
    /\ \A i \in 1..Len(traj.ptrs) :
         /\ heap[twin.ptrs[i]].name = heap[traj.ptrs[i]].name
         /\ heap[twin.ptrs[i]].priority = heap[traj.ptrs[i]].priority
         /\ heap[traj.ptrs[i]].tag = snap[i]
         /\ lastOp.op = "clone" => heap[twin.ptrs[i]].tag = heap[traj.ptrs[i]].tag
    /\ Linked(heap, twin)
    /\ Linked(heap, traj)

\* A tagged trajectory of three nodes was cloned and a tag of the clone differs
\* from the trajectory's at its position.
C2_Witness ==
  /\ cloned
  /\ Len(traj.ptrs) = 3
  /\ \E i \in 1..3 : heap[traj.ptrs[i]].tag # ""
  /\ \E i \in 1..3 : heap[twin.ptrs[i]].tag # heap[traj.ptrs[i]].tag

\* ------------------------------------------- the drive specification

Arrivals == {1, 2}

\* Activity(name): the priority defaults to 0.
DefaultPriority == 0

\* run is pure virtual. The variants of the end-to-end scenario: A costs 1.5 and
\* B costs 2.5, counted in halves.
run(h, a, arrival) == IF h[a].name = "A" THEN 3 ELSE 5

\* A remove that unlinks the node.
remove_unlink(h, a, arrival) == [h EXCEPT ![a].next = NULL, ![a].prev = NULL]

\* virtual void remove(Arrival* arrival) {}
remove(h, a, arrival) == h

InitDrive == InitChain

BuildStep(name) ==
  /\ drive.pc = "idle"
  /\ AppendStep(name, DefaultPriority)

\* The scheduler takes the trajectory's head as the arrival's current node.
StartStep(arrival) ==
  /\ drive.pc = "idle"
  /\ LET first == head(traj)
     IN drive' = [pc |-> IF first = NULL THEN "done" ELSE "run",
                  arrival |-> arrival, cur |-> first, total |-> 0,
                  visited |-> <<>>]
  /\ lastOp' = Op("start", NULL, arrival)
  /\ UNCHANGED <<heap, chainVars, linkVars, removes, getVars, ov, pv>>

\* The scheduler runs the current node, adds its cost to the arrival's time and
\* moves on to get_next(); the walk ends when that is null.
AdvanceStep ==
  /\ drive.pc = "run"
  /\ LET cost == run(heap, drive.cur, drive.arrival)
         following == get_next(heap, drive.cur)
     IN drive' = [drive EXCEPT !.total = @ + cost,
                               !.visited = Append(@, drive.cur),
                               !.cur = following,
                               !.pc = IF following = NULL THEN "done" ELSE "run"]
  /\ lastOp' = Op("run", drive.cur, drive.arrival)
  /\ UNCHANGED <<heap, chainVars, linkVars, removes, getVars, ov, pv>>

\* Whether arrival has run node a.
Reached(a, arrival) ==
  /\ drive.arrival = arrival
  /\ \E i \in 1..Len(drive.visited) : drive.visited[i] = a

RemoveStep(a, arrival) ==
  /\ removes.n < MaxRemoves
  /\ heap' = remove(heap, a, arrival)
  /\ removes' = [n |-> removes.n + 1,
                 twice |-> lastOp = Op("remove", a, arrival)]
  /\ lastOp' = Op("remove", a, arrival)
  /\ UNCHANGED <<chainVars, linkVars, drive, getVars, ov, pv>>

NextDrive ==
  \/ \E name \in Names : BuildStep(name)
  \/ \E arrival \in Arrivals : StartStep(arrival)
  \/ AdvanceStep
  \/ \E a \in Allocated(heap), arrival \in Arrivals : RemoveStep(a, arrival)

\* The scheduler handles one event after the other: a walk that can advance does.
SpecDrive == InitDrive /\ [][NextDrive]_vars /\ WF_vars(AdvanceStep)

RECURSIVE SumRun(_, _, _)
SumRun(h, ptrs, arrival) ==
  IF ptrs = <<>> THEN 0
  ELSE run(h, Head(ptrs), arrival) + SumRun(h, Tail(ptrs), arrival)

NamesOf(h, trajectory) ==
  [i \in 1..Len(trajectory.ptrs) |-> h[trajectory.ptrs[i]].name]

\* C4: a walk from the head that runs the current node and advances with get_next
\* ends, and ends exactly when get_next is null at the tail: while it runs the
\* current node is the next unvisited one, when it is done every node was visited
\* once in chain order and the total is the sum of the nodes' run results, which
\* for the chain A -> B of costs 1.5 and 2.5 is 4.0 (8 halves).
C4_DriveVisitsChainAndSums ==
  /\ [](drive.pc = "run" =>
          /\ drive.cur # NULL
          /\ Len(drive.visited) < Len(traj.ptrs)
          /\ drive.cur = traj.ptrs[Len(drive.visited) + 1]
          /\ drive.visited = SubSeq(traj.ptrs, 1, Len(drive.visited)))
  /\ [](drive.pc = "done" =>
          /\ drive.cur = NULL
          /\ drive.visited = traj.ptrs
          /\ drive.total = SumRun(heap, traj.ptrs, drive.arrival)
          /\ NamesOf(heap, traj) = <<"A", "B">> => drive.total = 8)
  /\ (drive.pc = "run") ~> (drive.pc = "done")

\* The walk of the chain A -> B is done.
C4_Witness ==
  /\ drive.pc = "done"
  /\ NamesOf(heap, traj) = <<"A", "B">>
  /\ drive.total = 8
  /\ Len(drive.visited) = 2

\* C5: a call of remove, the first, a repeated one, or one for an arrival that
\* never ran the node, leaves every node's name, tag, count, priority, next and
\* prev as they were, and the trajectory and the walk with them.
C5_RemoveIsNoOp ==
  [][lastOp'.op = "remove" =>
       /\ heap' = heap
       /\ traj' = traj
       /\ drive' = drive]_vars

\* remove was called twice in a row on a linked node for an arrival that never
\* ran it, and the walk of the other arrival is under way.
C5_Witness ==
  /\ lastOp.op = "remove"
  /\ removes.twice
  /\ drive.pc = "run"
  /\ ~Reached(lastOp.a, lastOp.b)
  /\ get_prev(heap, lastOp.a) # NULL

\* ------------------------------------------- the getters

\* The values a parameter takes.
Values == 0..2

\* The contexts a getter is given: an arrival or a null pointer.
Contexts == Arrivals \cup {NULL}

\* What a native callback may answer: a value for every context.
Answers == [Contexts -> Values]

\* One invocation of the callback with arg: its answer, and the callback having
\* been invoked once more.
Invoke(call, arg) ==
  [ret |-> call.out[arg],
   call |-> [call EXCEPT !.calls = @ + 1, !.arg = arg, !.ret = call.out[arg]]]

\* A constant getter that reads the context.
get_var_ctx(var, arrival) == IF arrival = NULL THEN 0 ELSE var

\* T get(const T& var, Arrival* arrival) const
get_var(var, arrival) == var

\* A callback getter that keeps the first answer.
get_call_memo(call, arrival) ==
  IF call.calls > 0 THEN [ret |-> call.ret, call |-> call]
  ELSE Invoke(call, arrival)

\* T get(const Fn<T(Arrival*)>& call, Arrival* arrival) const
get_call(call, arrival) == Invoke(call, arrival)

InitGet ==
  /\ heap = <<Activity("A", DefaultPriority)>>
  /\ lastOp = Op("init", NULL, NULL)
  /\ steps = 0
  /\ ghost = NoGhost
  /\ traj = EmptyTrajectory
  /\ twin = EmptyTrajectory
  /\ cloned = FALSE
  /\ snap = <<>>
  /\ drive = Idle
  /\ removes = NoRemoves
  /\ rv = NoResolution
  /\ \E out \in Answers : cb = [NoCallback EXCEPT !.out = out]
  /\ ov = NoOperator
  /\ pv = NoPrinting

GetRest == <<heap, lastOp, linkVars, chainVars, driveVars, ov, pv>>

GetVar(var, arrival) ==
  /\ rv.n < MaxResolves
  /\ rv' = [n |-> rv.n + 1, kind |-> "var", ctx |-> arrival, var |-> var,
            result |-> get_var(var, arrival), prev |-> rv.result]
  /\ UNCHANGED <<cb, GetRest>>

\* The callback is stochastic or state-dependent: after an invocation it may
\* answer anything else.
GetCall(arrival) ==
  /\ rv.n < MaxResolves
  /\ LET r == get_call(cb, arrival)
     IN /\ rv' = [n |-> rv.n + 1, kind |-> "call", ctx |-> arrival, var |-> 0,
                  result |-> r.ret, prev |-> rv.result]
        /\ \E out \in Answers : cb' = [r.call EXCEPT !.out = out]
  /\ UNCHANGED GetRest

NextGet ==
  \/ \E var \in Values, arrival \in Contexts : GetVar(var, arrival)
  \/ \E arrival \in Contexts : GetCall(arrival)

SpecGet == InitGet /\ [][NextGet]_vars

\* C6: every resolution of a native-callback source invokes the callback once,
\* with the resolution's context, and returns what the callback answered in that
\* invocation: nothing is kept from one resolution to the next.
C6_CallbackInvokedOncePerResolution ==
  [][(rv'.kind = "call" /\ rv'.n # rv.n) =>
       /\ cb'.calls = cb.calls + 1
       /\ cb'.arg = rv'.ctx
       /\ rv'.result = cb'.ret
       /\ rv'.result = cb.out[rv'.ctx]]_vars

\* The callback was resolved at least twice, with an arrival, and answered
\* another value than the resolution before.
C6_Witness ==
  /\ rv.kind = "call"
  /\ cb.calls >= 2
  /\ rv.ctx # NULL
  /\ rv.result = cb.ret
  /\ rv.result # rv.prev

\* C7: resolving a constant source of value v returns v, for every context, the
\* null one included, and on every call; the node and the callback are left as
\* they were.
C7_ConstantResolvesToItself ==
  [][(rv'.kind = "var" /\ rv'.n # rv.n) =>
       /\ rv'.result = rv'.var
       /\ heap' = heap
       /\ cb' = cb]_vars

\* A non-zero constant was resolved with the null context, not for the first
\* time.
C7_Witness ==
  /\ rv.kind = "var"
  /\ rv.n >= 2
  /\ rv.ctx = NULL
  /\ rv.var # 0
  /\ rv.result = rv.var

\* ------------------------------------------- get_op

\* The numbers a combinator is applied to.
Args == 0..MaxArg

\* The operator tags tried: the two known ones and two others.
Mods == {"+", "*", "/", "-"}

\* BIND(std::plus<double>(), _1, _2)
plus == [p \in Args \X Args |-> p[1] + p[2]]

\* BIND(std::multiplies<double>(), _1, _2)
multiplies == [p \in Args \X Args |-> p[1] * p[2]]

\* A get_op whose switch falls back to the sum.
get_op_default(mod) ==
  CASE mod = "*" -> [empty |-> FALSE, call |-> multiplies]
    [] OTHER -> [empty |-> FALSE, call |-> plus]

get_op(mod) ==
  CASE mod = "+" -> [empty |-> FALSE, call |-> plus]
    [] mod = "*" -> [empty |-> FALSE, call |-> multiplies]
    [] OTHER -> EmptyFn

InitOp ==
  /\ heap = <<>>
  /\ lastOp = Op("init", NULL, NULL)
  /\ steps = 0
  /\ ghost = NoGhost
  /\ traj = EmptyTrajectory
  /\ twin = EmptyTrajectory
  /\ cloned = FALSE
  /\ snap = <<>>
  /\ drive = Idle
  /\ removes = NoRemoves
  /\ rv = NoResolution
  /\ cb = NoCallback
  /\ \E mod \in Mods, x \in Args, y \in Args :
       ov = [NoOperator EXCEPT !.pc = "start", !.mod = mod, !.x = x, !.y = y]
  /\ pv = NoPrinting

OpRest == <<heap, lastOp, linkVars, chainVars, driveVars, getVars, pv>>

ResolveOp ==
  /\ ov.pc = "start"
  /\ ov' = [ov EXCEPT !.pc = "resolved", !.fn = get_op(ov.mod)]
  /\ UNCHANGED OpRest

\* The caller applies the combinator it was given.
ApplyOp ==
  /\ ov.pc = "resolved"
  /\ ~ov.fn.empty
  /\ ov' = [ov EXCEPT !.pc = "applied", !.out = ov.fn.call[<<ov.x, ov.y>>]]
  /\ UNCHANGED OpRest

\* The caller reports the tag it got no combinator for.
RejectOp ==
  /\ ov.pc = "resolved"
  /\ ov.fn.empty
  /\ ov' = [ov EXCEPT !.pc = "unsupported"]
  /\ UNCHANGED OpRest

NextOp == ResolveOp \/ ApplyOp \/ RejectOp

SpecOp == InitOp /\ [][NextOp]_vars

\* C8: get_op('+') is a combinator returning the sum of its arguments and
\* get_op('*') one returning their product, so (2, 3) gives 5 and 6; for every
\* other tag the combinator is absent.
C8_GetOpSumProductOrAbsent ==
  /\ ov.pc \in {"resolved", "applied", "unsupported"} =>
       (ov.fn.empty <=> ov.mod \notin {"+", "*"})
  /\ ov.pc = "applied" =>
       /\ ov.mod = "+" => ov.out = ov.x + ov.y
       /\ ov.mod = "*" => ov.out = ov.x * ov.y
       /\ (ov.mod = "+" /\ ov.x = 2 /\ ov.y = 3) => ov.out = 5
       /\ (ov.mod = "*" /\ ov.x = 2 /\ ov.y = 3) => ov.out = 6
  /\ ov.pc = "unsupported" => ov.mod \notin {"+", "*"}

\* The product of 2 and 3 was computed.
C8_Witness ==
  /\ ov.pc = "applied"
  /\ ov.mod = "*"
  /\ ov.x = 2
  /\ ov.y = 3
  /\ ov.out = 6

\* ------------------------------------------- printing

MAX_PRINT_ARGS == 5

\* What is written to Rcpp::Rcout, piece by piece: a literal, a field (with its
\* width when FMT sets one), the indentation, or std::endl.
Lit(text) == [k |-> "lit", v |-> text, w |-> 0]
Field(kind, text, width) == [k |-> kind, v |-> text, w |-> width]
Endl == [k |-> "endl", v |-> "", w |-> 0]

\* IND(indent): indent spaces.
IND(indent) == [k |-> "ind", v |-> "", w |-> indent]

\* An Activity* written to a stream: its address.
Address(a) == ToString(a)

\* void Activity::print(unsigned int indent, bool verbose, bool brief)
Activity_print(h, a, indent, verbose, brief) ==
  IF brief THEN <<>>
  ELSE <<IND(indent), Lit("{ Activity: "), Field("name", h[a].name, 12), Lit(" | ")>>
       \o (IF verbose
           THEN <<Field("ptr", Address(h[a].prev), 9), Lit(" <- "),
                  Field("ptr", Address(a), 9), Lit(" -> "),
                  Field("ptr", Address(h[a].next), 9), Lit(" | ")>>
           ELSE <<>>)
       \o (IF h[a].tag # ""
           THEN <<Lit("["), Field("tag", h[a].tag, 0), Lit("] ")>>
           ELSE <<>>)

\* A print(bool, bool) that closes the node whatever brief says.
print_closing(brief, endl) == <<Lit(" }"), Endl>>

\* void internal::print(bool brief, bool endl)
print(brief, endl) ==
  IF ~brief THEN <<Lit(" }"), Endl>>
  ELSE IF endl THEN <<Endl>>
  ELSE <<>>

\* PRINT_FUNC: print(brief, endl, n0, v0, ...), for 1 to MAX_PRINT_ARGS pairs of a
\* label and a value.
RECURSIVE print_args(_, _, _)
print_args(brief, endl, args) ==
  IF args = <<>> THEN print(brief, endl)
  ELSE (IF ~brief THEN <<Field("label", args[1].n, 0)>> ELSE <<>>)
       \o <<Field("value", args[1].v, 0)>>
       \o (IF Len(args) - 1 # 0 \/ (brief /\ ~endl) THEN <<Lit(", ")>> ELSE <<>>)
       \o print_args(brief, endl, Tail(args))

\* ARG(arg): the argument's name followed by ": ", and its value.
ARG(i) == [n |-> "arg" \o ToString(i) \o ": ", v |-> "val" \o ToString(i)]

\* A concrete activity's print: the header of Activity::print, then its labelled
\* arguments through internal::print.
Node_print(h, a, indent, verbose, brief, endl, nargs) ==
  Activity_print(h, a, indent, verbose, brief)
  \o print_args(brief, endl, [i \in 1..nargs |-> ARG(i)])

Indents == {0, 2}

InitPrint == InitChain

PrintRest == <<heap, lastOp, linkVars, chainVars, driveVars, getVars, ov>>

PrintBuildStep(name) ==
  /\ pv.pc = "idle"
  /\ AppendStep(name, DefaultPriority)

PrintTagStep(i, t) ==
  /\ pv.pc = "idle"
  /\ TagStep(i, t)

PrintStart(indent, verbose, brief, endl, nargs) ==
  /\ pv.pc = "idle"
  /\ nargs <= MAX_PRINT_ARGS
  /\ pv' = [pc |-> "printing", at |-> 1, out |-> <<>>, indent |-> indent,
            verbose |-> verbose, brief |-> brief, endl |-> endl, nargs |-> nargs]
  /\ UNCHANGED PrintRest

\* The trajectory's nodes are printed in chain order.
PrintNodeStep ==
  /\ pv.pc = "printing"
  /\ pv.at <= get_n_activities(traj)
  /\ pv' = [pv EXCEPT
              !.out = @ \o Node_print(heap, traj.ptrs[pv.at], pv.indent,
                                      pv.verbose, pv.brief, pv.endl, pv.nargs),
              !.at = @ + 1]
  /\ UNCHANGED PrintRest

PrintDone ==
  /\ pv.pc = "printing"
  /\ pv.at > get_n_activities(traj)
  /\ pv' = [pv EXCEPT !.pc = "done"]
  /\ UNCHANGED PrintRest

NextPrint ==
  \/ \E name \in Names : PrintBuildStep(name)
  \/ \E i \in 1..Len(traj.ptrs), t \in Tags : PrintTagStep(i, t)
  \/ \E indent \in Indents, verbose \in BOOLEAN, brief \in BOOLEAN,
        endl \in BOOLEAN, nargs \in 0..PrintArgs :
       PrintStart(indent, verbose, brief, endl, nargs)
  \/ PrintNodeStep
  \/ PrintDone

SpecPrint == InitPrint /\ [][NextPrint]_vars

IsOpen(piece) == piece = Lit("{ Activity: ")
IsClose(piece) == piece = Lit(" }")
IsDelimiter(piece) == IsOpen(piece) \/ IsClose(piece)

Count(out, Test(_)) == Len(SelectSeq(out, Test))

\* The opening and closing delimiters of out alternate, an opening one first.
Paired(out) ==
  LET d == SelectSeq(out, IsDelimiter)
  IN \A i \in 1..Len(d) : IF i % 2 = 1 THEN IsOpen(d[i]) ELSE IsClose(d[i])

\* C9: printed with brief = false, every node gives one "{ Activity: " header
\* followed by one " }" close, so a chain of two nodes gives two matching pairs;
\* with brief = true no close is written, and a line end is written only when endl
\* asks for one.
C9_PrintDelimiters ==
  LET printed == pv.at - 1
  IN pv.pc \in {"printing", "done"} =>
       /\ ~pv.brief =>
            /\ Count(pv.out, IsOpen) = printed
            /\ Count(pv.out, IsClose) = printed
            /\ Paired(pv.out)
            /\ (pv.pc = "done" /\ get_n_activities(traj) = 2) =>
                 Count(pv.out, IsDelimiter) = 4
       /\ pv.brief =>
            /\ Count(pv.out, IsDelimiter) = 0
            /\ ~pv.endl => Count(pv.out, LAMBDA piece : piece = Endl) = 0
            /\ pv.endl =>
                 /\ Count(pv.out, LAMBDA piece : piece = Endl) = printed
                 /\ printed > 0 => pv.out[Len(pv.out)] = Endl

\* A chain of two nodes was printed in full, with arguments and without brief.
C9_Witness ==
  /\ pv.pc = "done"
  /\ get_n_activities(traj) = 2
  /\ ~pv.brief
  /\ pv.nargs = 2
  /\ Count(pv.out, IsOpen) = 2
  /\ Count(pv.out, IsClose) = 2

====
